---- MODULE Spec2Model ----
(***************************************************************************)
(* Model of the travelling-salesman tooling of theextramile:               *)
(*   - lib/gem.sa.py: the simulated-annealing script (distance, distance   *)
(*     matrix, TravellingSalesmanProblem.move / energy, the run);          *)
(*   - lib/data.py find_tour: the loop rotating a solved tour so that the  *)
(*     starting county comes first.                                        *)
(* Latitudes and longitudes are multiples of 90 degrees, where sin and cos *)
(* are exactly -1, 0 or 1; a distance is kept in units of pi/180 mile, so  *)
(* that acos(x) * R is the integer AcosDeg(x) * R.                         *)
(* The annealing loop itself (Annealer.anneal of the simanneal package) is *)
(* not part of the repository; it is modelled from section 4.4 of the      *)
(* specification.                                                          *)
(***************************************************************************)
EXTENDS Integers, Sequences, FiniteSets, TLC

VARIABLES cities, state, distance_matrix, phase, Tmax, steps, T, step,
          expired, E, initial_energy, cand, dE, accepted, result,
          data, tour, tour_route, rpc, data_out

avars == <<cities, state, distance_matrix, phase, Tmax, steps, T, step,
           expired, E, initial_energy, cand, dE, accepted, result>>
rvars == <<data, tour, tour_route, rpc, data_out>>
vars == <<avars, rvars>>

\* ---------------------------------------------------------------- bounds
MaxN == 4          \* largest Location Set (number of ids)
MaxSteps == 2      \* largest configured max_steps
T0 == 2            \* configured initial temperature
MaxRows == 3       \* largest data frame handed to find_tour

\* ------------------------------------------------------ program constants
R == 3963
start_gid == 6941775

\* The coordinates a location may have: (latitude, longitude) in degrees.
Coords == <<<<0, 90>>, <<-90, 0>>, <<0, -90>>>>

\* The Location Sets of n ids: id i lies at Coords[k[i]], k non-decreasing.
\* Any other assignment of these coordinates is a renaming of the ids, and the
\* shuffle takes the itinerary through every order of the ids.
LocationSets(n) ==
    {[i \in 1..n |-> Coords[k[i]]] :
        k \in {f \in [1..n -> 1..Len(Coords)] :
                  \A i, j \in 1..n : i <= j => f[i] <= f[j]}}

None == <<>>

\* ------------------------------------------------------------- distance
\* math.sin / math.cos of math.radians(d), d a multiple of 90 degrees.
SinDeg(d) ==
    LET m == d % 360
    IN  CASE m = 0 -> 0 [] m = 90 -> 1 [] m = 180 -> 0 [] m = 270 -> -1

CosDeg(d) ==
    LET m == d % 360
    IN  CASE m = 0 -> 1 [] m = 90 -> 0 [] m = 180 -> -1 [] m = 270 -> 0

\* math.acos, in degrees, of the values the products above can take.
AcosDeg(x) == CASE x = 1 -> 0 [] x = 0 -> 90 [] x = -1 -> 180

distance(a, b) ==
    LET lat1 == a[1]
        lon1 == a[2]
        lat2 == b[1]
        lon2 == b[2]
    IN  AcosDeg(SinDeg(lat1) * SinDeg(lat2) +
                CosDeg(lat1) * CosDeg(lat2) * CosDeg(lon1 - lon2)) * R

\* for kb, vb in cities.items(): if kb >= ka: ... (the mirrored half is left out)
MatrixUpperHalf(c) ==
    [ka \in DOMAIN c |->
        [kb \in {k \in DOMAIN c : k >= ka} |->
            IF kb = ka THEN 0 ELSE distance(c[ka], c[kb])]]

\* for ka, va in cities.items(): for kb, vb in cities.items(): ...
MatrixOf(c) ==
    [ka \in DOMAIN c |->
        [kb \in DOMAIN c |-> IF kb = ka THEN 0 ELSE distance(c[ka], c[kb])]]

\* ------------------------------------------------------ move and energy
\* s[i] of a Python list, i possibly negative (s[-1] is the last element).
PyItem(s, i) == IF i < 0 THEN s[Len(s) + i + 1] ELSE s[i + 1]

RECURSIVE EnergyFrom(_, _, _)
\* for i in range(1, len(self.state)): the closing edge is left out
EnergyOpenPath(dm, s) == EnergyFrom(dm, s, 1)

EnergyFrom(dm, s, i) ==
    IF i >= Len(s) THEN 0
    ELSE dm[PyItem(s, i - 1)][PyItem(s, i)] + EnergyFrom(dm, s, i + 1)

\* e = 0; for i in range(len(self.state)): e += dm[state[i-1]][state[i]]
energy(dm, s) == EnergyFrom(dm, s, 0)

\* self.state[a] = self.state[b]; self.state[b] = self.state[a]
SwapOverwrite(s, a, b) ==
    [i \in 1..Len(s) |-> IF i = a + 1 THEN s[b + 1] ELSE s[i]]

\* self.state[a], self.state[b] = self.state[b], self.state[a]
Swap(s, a, b) ==
    [i \in 1..Len(s) |->
        IF i = a + 1 THEN s[b + 1] ELSE IF i = b + 1 THEN s[a + 1] ELSE s[i]]

\* return initial_energy - self.energy()
MoveDeltaReversed(dm, s, a, b) == energy(dm, s) - energy(dm, Swap(s, a, b))

\* return self.energy() - initial_energy
MoveDelta(dm, s, a, b) == energy(dm, Swap(s, a, b)) - energy(dm, s)

\* random.randint(0, len(self.state) - 1): the positions move() can draw.
PositionsOffByOne(s) == 0..Len(s)

Positions(s) == 0..(Len(s) - 1)

\* The positions at which a list of this length can be indexed.
Indexable(s) == 0..(Len(s) - 1)

\* move() raises: randint on an empty range (ValueError), or a drawn position
\* that is no index of the list (IndexError).
MoveRaises(s) == Positions(s) = {} \/ ~(Positions(s) \subseteq Indexable(s))

\* ----------------------------------------------------- the script's run
\* list(cities): the ids in the dict's order.
ListOf(c) == [i \in 1..Cardinality(DOMAIN c) |-> i]

\* random.shuffle: any rearrangement of the list.
Shuffles(s) ==
    {p \in [1..Len(s) -> {s[i] : i \in 1..Len(s)}] :
        \A i, j \in 1..Len(s) : i # j => p[i] # p[j]}

RotIdle ==
    /\ data = <<>>
    /\ tour = <<>>
    /\ tour_route = <<>>
    /\ rpc = "Idle"
    /\ data_out = None

Init ==
    /\ \E n \in 0..MaxN : cities \in LocationSets(n)
    /\ state = None
    /\ distance_matrix = <<>>
    /\ phase = "Start"
    /\ Tmax = 0
    /\ steps = 0
    /\ T = 0
    /\ step = 0
    /\ expired = FALSE
    /\ E = 0
    /\ initial_energy = 0
    /\ cand = None
    /\ dE = 0
    /\ accepted = FALSE
    /\ result = None
    /\ RotIdle

\* init_state = list(cities); random.shuffle(init_state)
Shuffle ==
    /\ phase = "Start"
    /\ state' \in Shuffles(ListOf(cities))
    /\ phase' = "Shuffled"
    /\ UNCHANGED <<cities, distance_matrix, Tmax, steps, T, step, expired, E,
                   initial_energy, cand, dE, accepted, result>>
    /\ UNCHANGED rvars

\* distance_matrix = defaultdict(dict); the two nested loops
BuildMatrix ==
    /\ phase = "Shuffled"
    /\ distance_matrix' = MatrixOf(cities)
    /\ phase' = "Built"
    /\ UNCHANGED <<cities, state, Tmax, steps, T, step, expired, E,
                   initial_energy, cand, dE, accepted, result>>
    /\ UNCHANGED rvars

\* tsp = TravellingSalesmanProblem(init_state, distance_matrix)
\* tsp.set_schedule(...): the schedule the run is given
SetSchedule ==
    /\ phase = "Built"
    /\ Tmax' = T0
    /\ steps' \in 1..MaxSteps
    /\ phase' = "Initializing"
    /\ UNCHANGED <<cities, state, distance_matrix, T, step, expired, E,
                   initial_energy, cand, dE, accepted, result>>
    /\ UNCHANGED rvars

\* ------------------------------------------- the annealing engine (4.4)
\* Initializing: T := T0, the seed state's energy is computed.
Initialize ==
    /\ phase = "Initializing"
    /\ T' = Tmax
    /\ E' = energy(distance_matrix, state)
    /\ phase' = "Running"
    /\ UNCHANGED <<cities, state, distance_matrix, Tmax, steps, step, expired,
                   initial_energy, cand, dE, accepted, result>>
    /\ UNCHANGED rvars

\* tsp.copy_strategy = "alias": the saved itinerary is the list move() swaps
\* in place, so it holds the swapped itinerary.
SavedAliased(saved, moved) == moved

\* tsp.copy_strategy = "slice": the itinerary saved before move() is a copy
\* (state[:]), which the in-place swap does not reach; a rejected step puts
\* it back.
SavedCopy(saved, moved) == saved

\* Metropolis criterion: a move with dE <= 0 is accepted; one with dE > 0 is
\* accepted when the random draw (coin) falls below exp(-dE / T).
Accept(d, coin) == d <= 0 \/ coin

\* T <- T * alpha, alpha = 1/2, once per step.
Cool(t) == t \div 2

\* Whether the elapsed wall-clock time exceeds the configured budget.
TimeUp == expired
\* The temperature floor is 1, the least positive temperature of the model.
Exhausted == T < 1 \/ step >= steps
ShouldStop == TimeUp \/ Exhausted

\* One step of Running: propose (move), accept or reject, cool, count.
Step ==
    /\ phase = "Running"
    /\ ~ShouldStop
    /\ \E a \in Positions(state) \cap Indexable(state),
          b \in Positions(state) \cap Indexable(state) :
          /\ cand' = Swap(state, a, b)
          /\ dE' = MoveDelta(distance_matrix, state, a, b)
    /\ \E coin \in BOOLEAN : accepted' = Accept(dE', coin)
    /\ initial_energy' = energy(distance_matrix, state)
    /\ state' = IF accepted' THEN cand' ELSE SavedCopy(state, cand')
    /\ E' = IF accepted' THEN E + dE' ELSE E
    /\ expired' \in BOOLEAN
    /\ T' = Cool(T)
    /\ step' = step + 1
    /\ UNCHANGED <<cities, distance_matrix, phase, Tmax, steps, result>>
    /\ UNCHANGED rvars

\* A step whose move() raises (on an empty itinerary random.randint(0, -1)
\* raises ValueError): the exception leaves the run.
StepRaises ==
    /\ phase = "Running"
    /\ ~ShouldStop
    /\ MoveRaises(state)
    /\ phase' = "Error"
    /\ UNCHANGED <<cities, state, distance_matrix, Tmax, steps, T, step,
                   expired, E, initial_energy, cand, dE, accepted, result>>
    /\ UNCHANGED rvars

\* The stopping condition holds: the run ends and yields the current state.
Stop ==
    /\ phase = "Running"
    /\ ShouldStop
    /\ phase' = IF TimeUp THEN "TimedOut" ELSE "Converged"
    /\ result' = <<state, E>>
    /\ UNCHANGED <<cities, state, distance_matrix, Tmax, steps, T, step,
                   expired, E, initial_energy, cand, dE, accepted>>
    /\ UNCHANGED rvars

Next ==
    \/ Shuffle
    \/ BuildMatrix
    \/ SetSchedule
    \/ Initialize
    \/ Step
    \/ StepRaises
    \/ Stop

Spec == Init /\ [][Next]_vars

FairSpec == Init /\ [][Next]_vars /\ WF_vars(Next)

\* ------------------------------------------------ find_tour (lib/data.py)
\* The rows a data frame may hold: the county's gid and the visit position.
Gids == {start_gid, 1}
RowCoords == {<<0, 0>>, <<0, 180>>, <<90, 0>>}
Rows == [gid_county : Gids, visit : RowCoords]

AnnealIdle ==
    /\ cities = <<>>
    /\ state = None
    /\ distance_matrix = <<>>
    /\ phase = "Idle"
    /\ Tmax = 0
    /\ steps = 0
    /\ T = 0
    /\ step = 0
    /\ expired = FALSE
    /\ E = 0
    /\ initial_energy = 0
    /\ cand = None
    /\ dE = 0
    /\ accepted = FALSE
    /\ result = None

RotInit ==
    /\ AnnealIdle
    /\ \E n \in 1..MaxRows : data \in [1..n -> Rows]
    /\ tour = <<>>
    /\ tour_route = <<>>
    /\ rpc = "Solve"
    /\ data_out = None

\* The tours a solver can hand back: the row positions 0..n-1 in any order.
Tours(n) ==
    {p \in [1..n -> 0..(n - 1)] : \A i, j \in 1..n : i # j => p[i] # p[j]}

\* tour_data = solver.solve(...); tour_route = tour_data.tour
Solve ==
    /\ rpc = "Solve"
    /\ tour' \in Tours(Len(data))
    /\ tour_route' = tour'
    /\ rpc' = "Rotating"
    /\ UNCHANGED <<data, data_out>>
    /\ UNCHANGED avars

\* np.append(tour_route[1:], tour_route[-1:]): the last row twice, the first lost
RotateLosingFirst(r) == SubSeq(r, 2, Len(r)) \o SubSeq(r, Len(r), Len(r))

\* np.append(tour_route[1:], tour_route[:1])
RotateLeft(r) == SubSeq(r, 2, Len(r)) \o SubSeq(r, 1, 1)

\* data.gid_county.iloc[tour_route[0]]
FirstGid == data[tour_route[1] + 1].gid_county

\* while data.gid_county.iloc[tour_route[0]] != start_gid: one iteration
RotateStep ==
    /\ rpc = "Rotating"
    /\ FirstGid # start_gid
    /\ tour_route' = RotateLeft(tour_route)
    /\ UNCHANGED <<data, tour, rpc, data_out>>
    /\ UNCHANGED avars

\* The loop's exit: data_out = data.iloc[tour_route]; return data_out
SaveTour ==
    /\ rpc = "Rotating"
    /\ FirstGid = start_gid
    /\ data_out' = [i \in 1..Len(tour_route) |-> data[tour_route[i] + 1]]
    /\ rpc' = "Saved"
    /\ UNCHANGED <<data, tour, tour_route>>
    /\ UNCHANGED avars

RotNext ==
    \/ Solve
    \/ RotateStep
    \/ SaveTour

\* find_tour runs on one thread to its end: a step that can be taken is taken.
RotateSpec == RotInit /\ [][RotNext]_vars /\ WF_vars(RotNext)

\* ================================================================ claims
Terminal == {"Converged", "TimedOut"}
Shuffled == phase \notin {"Idle", "Start"}
Built == phase \notin {"Idle", "Start", "Shuffled"}
Started == phase \in {"Running", "Converged", "TimedOut", "Error"}

\* s holds every element of S exactly once.
IsPermutationOf(s, S) ==
    /\ Len(s) = Cardinality(S)
    /\ \A x \in S : Cardinality({i \in 1..Len(s) : s[i] = x}) = 1

\* The length of the closed tour s: every position's edge to its successor,
\* the last position's successor being the first.
RECURSIVE SumTo(_, _)
SumTo(f, n) == IF n = 0 THEN 0 ELSE f[n] + SumTo(f, n - 1)

CycleLength(s) ==
    SumTo([i \in 1..Len(s) |->
              IF s[i] = s[(i % Len(s)) + 1] THEN 0
              ELSE distance(cities[s[i]], cities[s[(i % Len(s)) + 1]])],
          Len(s))

\* C1: the itinerary after the shuffle, the itinerary a move proposes, the
\* itinerary after every step and the returned tour each hold every location
\* id exactly once.
PermutationInvariant ==
    /\ Shuffled => IsPermutationOf(state, DOMAIN cities)
    /\ cand # None => IsPermutationOf(cand, DOMAIN cities)
    /\ result # None => IsPermutationOf(result[1], DOMAIN cities)

PermutationWitness ==
    /\ phase \in Terminal
    /\ Len(state) >= 3
    /\ step = 2
    /\ accepted
    /\ cand # ListOf(cities)
    /\ result[1] = state
    /\ state # ListOf(cities)

\* C2: the energy the run holds for its itinerary, energy() of that itinerary
\* and the energy returned with the final tour are the sum of the distances
\* of all n cyclically adjacent pairs, the closing edge included; for two
\* locations that is twice their distance.
EnergyConsistent ==
    /\ Started => /\ E = CycleLength(state)
                  /\ energy(distance_matrix, state) = CycleLength(state)
    /\ (Started /\ Len(state) = 2) =>
          E = 2 * distance(cities[state[1]], cities[state[2]])
    /\ result # None => result[2] = CycleLength(result[1])

EnergyWitness ==
    /\ phase \in Terminal
    /\ Len(state) >= 3
    /\ accepted
    /\ dE # 0
    /\ result[2] > 0

\* C3: a proposed move whose energy after the swap is not above the energy
\* before it is accepted: the itinerary after the step is the proposed one.
AcceptanceRule ==
    (Started /\ step >= 1) =>
        (CycleLength(cand) - initial_energy <= 0 =>
            accepted /\ state = cand)

AcceptanceWitness ==
    /\ step >= 1
    /\ T >= 1
    /\ dE < 0
    /\ accepted
    /\ state = cand
    /\ E = initial_energy + dE

\* C4: a run on a Location Set of two or more ids leaves Running and ends
\* Converged or TimedOut; it never fails; once the stopping condition holds no
\* step is executed; nothing happens after the terminal state.
ValidInput == Cardinality(DOMAIN cities) >= 2

Termination ==
    /\ ValidInput => <>(phase \in Terminal)
    /\ [](ValidInput => phase # "Error")
    /\ [](phase = "Converged" => (T < 1 \/ step >= steps))
    /\ [](phase = "TimedOut" => expired)
    /\ [][(phase = "Running" /\ ShouldStop) =>
             (phase' \in Terminal /\ step' = step /\ state' = state)]_vars
    /\ [][phase \notin Terminal]_vars

TerminationWitness ==
    /\ ValidInput
    /\ phase = "TimedOut"
    /\ step = 1
    /\ steps = 2
    /\ T >= 1

\* C6 as claimed: after every step the tour is no longer than it was before
\* the step (initial_energy is the tour's energy when the step began).
TourLengthNonIncreasing ==
    (Started /\ step >= 1) => CycleLength(state) <= initial_energy

\* C6, amended: a step leaves the tour no longer than it was unless it accepts
\* a move with a positive energy delta, and then the tour is longer by exactly
\* that delta; a rejected step leaves the tour's length as it was.
TourLengthGrowsOnlyByAcceptedDelta ==
    (Started /\ step >= 1) =>
        /\ accepted => CycleLength(state) = initial_energy + dE
        /\ ~accepted => CycleLength(state) = initial_energy
        /\ CycleLength(state) > initial_energy => (accepted /\ dE > 0)

UphillAcceptedWitness ==
    /\ phase = "Converged"
    /\ accepted
    /\ dE > 0
    /\ state = cand
    /\ result[2] = initial_energy + dE

\* C9: a Location Set of fewer than two ids is rejected before the run: the
\* engine never enters Running on it, executes no step and raises no error.
InvalidInputRejected ==
    ~ValidInput => (~Started /\ step = 0 /\ result = None)

\* C10: once built, the matrix holds an entry for every ordered pair of ids,
\* zero on the diagonal, symmetric and non-negative, and nothing writes to it
\* afterwards.
MatrixShape ==
    /\ DOMAIN distance_matrix = DOMAIN cities
    /\ \A i \in DOMAIN cities : DOMAIN distance_matrix[i] = DOMAIN cities
    /\ \A i \in DOMAIN cities :
          /\ distance_matrix[i][i] = 0
          /\ \A j \in DOMAIN cities :
                /\ distance_matrix[i][j] = distance_matrix[j][i]
                /\ distance_matrix[i][j] >= 0

MatrixBuiltOnce ==
    /\ [](Built => MatrixShape)
    /\ [][Built => distance_matrix' = distance_matrix]_vars

MatrixWitness ==
    /\ phase = "Converged"
    /\ step = 2
    /\ accepted
    /\ \E i, j, k \in DOMAIN cities :
          /\ distance_matrix[i][j] > distance_matrix[i][k]
          /\ distance_matrix[i][k] > 0

\* ------------------------------------------------------ find_tour claims
AnchorPresent == \E i \in 1..Len(data) : data[i].gid_county = start_gid

\* r is t started at another position.
IsCyclicShiftOf(r, t) ==
    /\ Len(r) = Len(t)
    /\ \E k \in 0..(Len(t) - 1) :
          \A i \in 1..Len(t) : r[i] = t[((i - 1 + k) % Len(t)) + 1]

\* The row that follows each row on the closed tour r.
SuccessorOn(r) ==
    [x \in {r[i] : i \in 1..Len(r)} |->
        r[((CHOOSE i \in 1..Len(r) : r[i] = x) % Len(r)) + 1]]

\* The undirected edges of the closed tour r.
EdgesOf(r) == {{r[i], r[(i % Len(r)) + 1]} : i \in 1..Len(r)}

\* The length of the closed tour r over the rows' visit positions.
RouteLength(r) ==
    SumTo([i \in 1..Len(r) |->
              distance(data[r[i] + 1].visit,
                       data[r[(i % Len(r)) + 1] + 1].visit)],
          Len(r))

\* C7: while and after the tour is rotated it is the solver's tour started
\* at another position: same successor of every row, same undirected edges,
\* same length; the loop ends when the anchor is present, and then the anchor
\* is first and the rows are saved in the rotated order.
RotationPreservesTour ==
    /\ [](rpc \in {"Rotating", "Saved"} =>
            /\ IsCyclicShiftOf(tour_route, tour)
            /\ SuccessorOn(tour_route) = SuccessorOn(tour)
            /\ EdgesOf(tour_route) = EdgesOf(tour)
            /\ RouteLength(tour_route) = RouteLength(tour))
    /\ [](rpc = "Saved" =>
            /\ FirstGid = start_gid
            /\ data_out[1].gid_county = start_gid
            /\ Len(data_out) = Len(data))
    /\ AnchorPresent => <>(rpc = "Saved")

RotationWitness ==
    /\ rpc = "Saved"
    /\ Len(tour) >= 3
    /\ tour_route # tour
    /\ tour_route[1] = tour[3]
    /\ RouteLength(tour) > 0

\* C8: with the anchor absent from the tour the rotation ends in a NotFound
\* failure handed to the caller (stated for tours of two or more rows, where
\* every iteration of the loop changes the route).
AnchorNotFoundSurfaced ==
    (~AnchorPresent /\ Len(data) >= 2) => <>(rpc = "NotFound")

\* ------------------------------------------------------- step atomicity
\* t is s with the entries at two positions exchanged, or s itself.
ExchangesTwo(s, t) ==
    /\ Len(t) = Len(s)
    /\ LET D == {i \in 1..Len(s) : t[i] # s[i]}
       IN  \/ D = {}
           \/ /\ Cardinality(D) = 2
              /\ \A i, j \in D : i # j => t[i] = s[j]

\* C11: the itinerary move() leaves is the pre-step itinerary with two
\* positions exchanged; after the step the itinerary is that one when the move
\* was accepted and the pre-step itinerary when it was rejected; a move that
\* changes nothing (a = b) reports delta 0 and leaves the itinerary as it was.
StepAtomic ==
    [][(phase = "Running" /\ step' = step + 1) =>
          /\ ExchangesTwo(state, cand')
          /\ accepted' => state' = cand'
          /\ ~accepted' => (state' = state /\ cand' # state)
          /\ cand' = state => (dE' = 0 /\ accepted' /\ state' = state)]_vars

StepAtomicWitness ==
    /\ phase = "Running"
    /\ step = 1
    /\ ~accepted
    /\ dE > 0
    /\ cand # state
    /\ ExchangesTwo(state, cand)
    /\ E = initial_energy

====
